---- MODULE Spec2Model ----
\* A model of package apk (crawshaw/apk): the APK Writer of writer.go and the
\* binary XML encoder of binary_xml.go.
\*
\*   SpecWriter  a caller driving NewWriter / Create / sink Write / Close
\*   SpecPool    a caller driving binStringPool.get and sortPool
\*   Spec        binaryXML: the token loop, sortPool and serialization
EXTENDS Integers, Sequences, FiniteSets, TLC

\* ------------------------------------------------------------------ bounds
\* longest call sequence a caller makes on one Writer
MaxCalls == 4
\* number of get calls made on one pool in SpecPool
MaxGets == 4
\* number of tokens the decoder delivers to binaryXML before end of input
MaxTokens == 4
\* the number of tokens of a document with long text
MaxLongTokens == 3
\* number of getAttr calls made on one pool in SpecAttr
MaxAttrs == 2

\* ----------------------------------------------------------------- strings
\* A Go string is modelled by the sequence of its code points; its bytes are
\* the UTF-8 encoding of that sequence.

\* ""
S_empty == << >>
\* "versionCode"
S_versionCode == <<118, 101, 114, 115, 105, 111, 110, 67, 111, 100, 101>>
\* "versionName"
S_versionName == <<118, 101, 114, 115, 105, 111, 110, 78, 97, 109, 101>>
\* "minSdkVersion"
S_minSdkVersion == <<109, 105, 110, 83, 100, 107, 86, 101, 114, 115, 105, 111, 110>>
\* "label"
S_label == <<108, 97, 98, 101, 108>>
\* "hasCode"
S_hasCode == <<104, 97, 115, 67, 111, 100, 101>>
\* "debuggable"
S_debuggable == <<100, 101, 98, 117, 103, 103, 97, 98, 108, 101>>
\* "name"
S_name == <<110, 97, 109, 101>>
\* "configChanges"
S_configChanges == <<99, 111, 110, 102, 105, 103, 67, 104, 97, 110, 103, 101, 115>>
\* "value"
S_value == <<118, 97, 108, 117, 101>>
\* "android"
S_android == <<97, 110, 100, 114, 111, 105, 100>>
\* "http://schemas.android.com/apk/res/android"
S_androidNS == <<104, 116, 116, 112, 58, 47, 47, 115, 99, 104, 101, 109, 97, 115, 46, 97, 110, 100, 114, 111, 105, 100, 46, 99, 111, 109, 47, 97, 112, 107, 47, 114, 101, 115, 47, 97, 110, 100, 114, 111, 105, 100>>
\* "xmlns"
S_xmlns == <<120, 109, 108, 110, 115>>
\* "tools"
S_tools == <<116, 111, 111, 108, 115>>
\* "urn:t"
S_toolsNS == <<117, 114, 110, 58, 116>>
\* "manifest"
S_manifest == <<109, 97, 110, 105, 102, 101, 115, 116>>
\* "package"
S_package == <<112, 97, 99, 107, 97, 103, 101>>
\* "a"
S_a == <<97>>
\* "b"
S_b == <<98>>
\* "B"
S_B == <<66>>
\* "x"
S_x == <<120>>
\* "1"
S_one == <<49>>
\* "true"
S_true == <<116, 114, 117, 101>>
\* "false"
S_false == <<102, 97, 108, 115, 101>>
\* U+00E9 (two UTF-8 bytes, one UTF-16 unit)
S_eacute == <<233>>
\* U+4E16 U+754C (three UTF-8 bytes and one UTF-16 unit each)
S_sekai == <<19990, 30028>>
\* U+1F600 (four UTF-8 bytes, a UTF-16 surrogate pair)
S_emoji == <<128512>>
\* "Balloon" followed by U+4E16 U+754C
S_balloonSekai == <<66, 97, 108, 108, 111, 111, 110, 19990, 30028>>

\* F applied to the value of v; v is evaluated once, however often F uses it
Let(v, F(_)) == CHOOSE r \in {F(x) : x \in {v}} : TRUE

\* the UTF-8 bytes of one code point
Utf8(cp) ==
    IF cp < 128 THEN <<cp>>
    ELSE IF cp < 2048 THEN <<192 + (cp \div 64), 128 + (cp % 64)>>
    ELSE IF cp < 65536 THEN
        <<224 + (cp \div 4096), 128 + ((cp \div 64) % 64), 128 + (cp % 64)>>
    ELSE <<240 + (cp \div 262144), 128 + ((cp \div 4096) % 64),
           128 + ((cp \div 64) % 64), 128 + (cp % 64)>>

\* the bytes of a Go string: the UTF-8 bytes of its code points, in order
\* (the bytes of the first half followed by those of the second half)
RECURSIVE Bytes(_)
Bytes(str) ==
    Let(str, LAMBDA t :
        IF t = << >> THEN << >>
        ELSE IF Len(t) = 1 THEN Utf8(t[1])
        ELSE Let(Len(t) \div 2, LAMBDA h :
                 Bytes(SubSeq(t, 1, h)) \o Bytes(SubSeq(t, h + 1, Len(t)))))

\* len(str): the number of bytes of the string
StrLen(str) == Len(Bytes(str))

\* x < y on byte sequences, the order of Go's string comparison: the first
\* byte that differs decides, and a proper prefix is less
BytesLess(x, y) ==
    LET n == IF Len(x) < Len(y) THEN Len(x) ELSE Len(y)
        diff == {i \in 1..n : x[i] # y[i]}
        d == CHOOSE i \in diff : \A j \in diff : i <= j
    IN  IF diff = {} THEN Len(x) < Len(y) ELSE x[d] < y[d]

\* a < b on Go strings
StrLess(a, b) ==
    Let(Bytes(a), LAMBDA x : Let(Bytes(b), LAMBDA y : BytesLess(x, y)))

\* ------------------------------------------------- byte-level primitives
\* the conversion uint16(v) of a non-negative int
U16(v) == v % 65536

\* appendU16: v is a uint16
appendU16(b, v) == b \o <<v % 256, (v \div 256) % 256>>

\* appendU32: a uint32 is held as an integer congruent to it modulo 2^32 (so
\* 0xffffffff is -1), of which the four low bytes are taken
appendU32(b, v) ==
    b \o <<v % 256, (v \div 256) % 256, (v \div 65536) % 256,
           (v \div 16777216) % 256>>

\* the little-endian 16-bit integer at the 0-based offset off of b
U16At(b, off) == b[off + 1] + 256 * b[off + 2]

\* the little-endian 32-bit integer at the 0-based offset off of b
U32At(b, off) ==
    b[off + 1] + 256 * b[off + 2] + 65536 * b[off + 3] + 16777216 * b[off + 4]

headerXML == 3
headerStringPool == 1
headerResourceMap == 384
headerStartNamespace == 256
headerEndNamespace == 257
headerStartElement == 258
headerEndElement == 259

\* appendHeader: the size is written as uint16(size) followed by a zero u16
appendHeader(b, typ, size) ==
    appendU16(appendU16(appendU16(appendU16(b, U16(typ)), 8), U16(size)), 0)

\* the table of resource IDs
resourceCodes ==
    (S_versionCode :> 16843291) @@ (S_versionName :> 16843292) @@
    (S_minSdkVersion :> 16843276) @@ (S_label :> 16842753) @@
    (S_hasCode :> 16842764) @@ (S_debuggable :> 16842767) @@
    (S_name :> 16842755) @@ (S_configChanges :> 16842783) @@
    (S_value :> 16842788)

\* ------------------------------------------------------------ string pool
\* A *bstring is a pointer: an index into heap, the sequence of the bstring
\* objects allocated so far.  s is the slice p.s of pointers and m the map
\* p.m from string to pointer (the empty function while p.m is nil).
EmptyPool == [heap |-> << >>, s |-> << >>, m |-> << >>]

\* utf16.Encode of one code point
Utf16(cp) ==
    IF cp < 65536 THEN <<cp>>
    ELSE <<55296 + ((cp - 65536) \div 1024), 56320 + ((cp - 65536) % 1024)>>

\* the loop of get that appends the UTF-16 units of the string to res.enc:
\* appendU16 of every unit, in order
AppendUnits(enc, units) ==
    enc \o [k \in 1..(2 * Len(units)) |->
               IF k % 2 = 1 THEN units[(k + 1) \div 2] % 256
               ELSE (units[k \div 2] \div 256) % 256]

\* utf16.Encode([]rune(str)): the units of the code points, in order (the
\* units of the first half followed by those of the second half)
RECURSIVE Utf16Encode(_)
Utf16Encode(str) ==
    Let(str, LAMBDA t :
        IF t = << >> THEN << >>
        ELSE IF Len(t) = 1 THEN Utf16(t[1])
        ELSE Let(Len(t) \div 2, LAMBDA h :
                 Utf16Encode(SubSeq(t, 1, h))
                     \o Utf16Encode(SubSeq(t, h + 1, Len(t)))))

\* res.enc as get builds it: 2-byte length, the units, 2-byte zero
Enc(str) ==
    Let(Utf16Encode(str), LAMBDA units :
        appendU16(AppendUnits(appendU16(<< >>, U16(StrLen(str))), units), 0))

\* a variant of get that skips the lookup in p.m and always allocates
GetNoLookup(p, str) ==
    LET ptr == Len(p.heap) + 1
        res == [ind |-> Len(p.s), str |-> str, enc |-> Enc(str)]
    IN  [p |-> [heap |-> Append(p.heap, res), s |-> Append(p.s, ptr),
                m |-> (str :> ptr) @@ [k \in DOMAIN p.m \ {str} |-> p.m[k]]],
         res |-> ptr, panic |-> FALSE]

\* binStringPool.get: the pool after the call (p), the pointer returned
\* (res) and whether the call panicked.  On a panic the new entry is already
\* in p.s and p.m, with a nil enc.
get(p, str) ==
    IF str \in DOMAIN p.m THEN [p |-> p, res |-> p.m[str], panic |-> FALSE]
    ELSE
        LET ptr == Len(p.heap) + 1
            res == [ind |-> Len(p.s), str |-> str, enc |-> << >>]
            p1  == [heap |-> Append(p.heap, res), s |-> Append(p.s, ptr),
                    m |-> (str :> ptr) @@ p.m]
        IN  IF StrLen(str) \div 65536 > 0
            THEN [p |-> p1, res |-> ptr, panic |-> TRUE]
            ELSE [p |-> [p1 EXCEPT !.heap[ptr].enc = Enc(str)],
                  res |-> ptr, panic |-> FALSE]

\* a variant of Less that compares the strings by their lengths only
LessByLen(p, i, j) == StrLen(p.heap[p.s[i]].str) < StrLen(p.heap[p.s[j]].str)

\* binStringPool.Less on 1-based positions
Less(p, i, j) == StrLess(p.heap[p.s[i]].str, p.heap[p.s[j]].str)

\* a variant of Swap that exchanges the pointers and leaves the ind fields
SwapPointers(p, i, j) ==
    [p EXCEPT !.s = [p.s EXCEPT ![i] = p.s[j], ![j] = p.s[i]]]

\* binStringPool.Swap on 1-based positions: the pointers are exchanged, then
\* the ind fields of the objects now at i and at j are exchanged
Swap(p, i, j) ==
    LET s1 == [p.s EXCEPT ![i] = p.s[j], ![j] = p.s[i]]
        h  == p.heap
    IN  [p EXCEPT !.s = s1,
                  !.heap = [k \in DOMAIN h |->
                      IF k = s1[i] THEN [h[k] EXCEPT !.ind = h[s1[j]].ind]
                      ELSE IF k = s1[j] THEN [h[k] EXCEPT !.ind = h[s1[i]].ind]
                      ELSE h[k]]]

\* the inner loop of the insertion sort that sort.Sort runs on a short
\* slice: for j := i; j > a && Less(j, j-1); j-- { Swap(j, j-1) }
RECURSIVE SiftDown(_, _)
SiftDown(p, j) ==
    IF j > 1 /\ Less(p, j, j - 1)
    THEN Let(Swap(p, j, j - 1), LAMBDA q : SiftDown(q, j - 1))
    ELSE p

\* the outer loop of that insertion sort
RECURSIVE InsertionSort(_, _)
InsertionSort(p, i) ==
    IF i > Len(p.s) THEN p
    ELSE Let(SiftDown(p, i), LAMBDA q : InsertionSort(q, i + 1))

\* sortPool: sort.Sort(p)
sortPool(p) == InsertionSort(p, 2)

stringPoolPreamble == 8 + 4 + 4 + 4 + 4 + 4

\* the sum of len(s.enc) over the entries at positions i..len(p.s)
RECURSIVE StrLens(_, _)
StrLens(p, i) ==
    IF i > Len(p.s) THEN 0 ELSE Len(p.heap[p.s[i]].enc) + StrLens(p, i + 1)

\* binStringPool.size
size(p) == stringPoolPreamble + 4 * Len(p.s) + StrLens(p, 1) + 2

\* the first loop of append: the offset of every string
RECURSIVE AppendOffsets(_, _, _, _)
AppendOffsets(b, p, i, off) ==
    IF i > Len(p.s) THEN b
    ELSE AppendOffsets(appendU32(b, off), p, i + 1,
                       off + Len(p.heap[p.s[i]].enc))

\* the second loop of append: the encoded strings
RECURSIVE AppendEncs(_, _, _)
AppendEncs(b, p, i) ==
    IF i > Len(p.s) THEN b ELSE AppendEncs(b \o p.heap[p.s[i]].enc, p, i + 1)

\* binStringPool.append
poolAppend(b, p) ==
    LET stringsStart == stringPoolPreamble + 4 * Len(p.s)
        b1 == appendU16(b, U16(headerStringPool))
        b2 == appendU16(b1, 28)
        b3 == appendU16(b2, U16(size(p)))
        b4 == appendU16(b3, 0)
        b5 == appendU32(b4, Len(p.s))
        b6 == appendU32(b5, 0)
        b7 == appendU32(b6, 0)
        b8 == appendU32(b7, stringsStart)
        b9 == appendU32(b8, 0)
    IN  appendU16(AppendEncs(AppendOffsets(b9, p, 1, 0), p, 1), 0)

\* ------------------------------------------------------- attribute values
\* "mcc"
S_mcc == <<109, 99, 99>>
\* "mnc"
S_mnc == <<109, 110, 99>>
\* "locale"
S_locale == <<108, 111, 99, 97, 108, 101>>
\* "touchscreen"
S_touchscreen == <<116, 111, 117, 99, 104, 115, 99, 114, 101, 101, 110>>
\* "keyboard"
S_keyboard == <<107, 101, 121, 98, 111, 97, 114, 100>>
\* "keyboardHidden"
S_keyboardHidden == <<107, 101, 121, 98, 111, 97, 114, 100, 72, 105, 100, 100, 101, 110>>
\* "navigation"
S_navigation == <<110, 97, 118, 105, 103, 97, 116, 105, 111, 110>>
\* "orientation"
S_orientation == <<111, 114, 105, 101, 110, 116, 97, 116, 105, 111, 110>>
\* "screenLayout"
S_screenLayout == <<115, 99, 114, 101, 101, 110, 76, 97, 121, 111, 117, 116>>
\* "uiMode"
S_uiMode == <<117, 105, 77, 111, 100, 101>>
\* "screenSize"
S_screenSize == <<115, 99, 114, 101, 101, 110, 83, 105, 122, 101>>
\* "smallestScreenSize"
S_smallestScreenSize == <<115, 109, 97, 108, 108, 101, 115, 116, 83, 99, 114, 101, 101, 110, 83, 105, 122, 101>>
\* "layoutDirection"
S_layoutDirection == <<108, 97, 121, 111, 117, 116, 68, 105, 114, 101, 99, 116, 105, 111, 110>>
\* "fontScale"
S_fontScale == <<102, 111, 110, 116, 83, 99, 97, 108, 101>>
\* "orientation|keyboardHidden"
S_orientKbd == <<111, 114, 105, 101, 110, 116, 97, 116, 105, 111, 110, 124, 107, 101, 121, 98, 111, 97, 114, 100, 72, 105, 100, 100, 101, 110>>
\* "orientation|nonsense"
S_orientNonsense == <<111, 114, 105, 101, 110, 116, 97, 116, 105, 111, 110, 124, 110, 111, 110, 115, 101, 110, 115, 101>>
\* "t"
S_t == <<116>>
\* "T"
S_T == <<84>>
\* "TRUE"
S_TRUE == <<84, 82, 85, 69>>
\* "True"
S_True == <<84, 114, 117, 101>>
\* "0"
S_zero == <<48>>
\* "f"
S_f == <<102>>
\* "F"
S_F == <<70>>
\* "FALSE"
S_FALSE == <<70, 65, 76, 83, 69>>
\* "False"
S_False == <<70, 97, 108, 115, 101>>
\* "4294967297"
S_big == <<52, 50, 57, 52, 57, 54, 55, 50, 57, 55>>
\* "here is some text"
S_here == <<104, 101, 114, 101, 32, 105, 115, 32, 115, 111, 109, 101, 32, 116, 101, 120, 116>>
\* "9223372036854775807", the largest int
S_maxInt == <<57, 50, 50, 51, 51, 55, 50, 48, 51, 54, 56, 53, 52, 55, 55, 53, 56, 48, 55>>
\* "9223372036854775808", the magnitude of the smallest int
\* "-1"
S_minusOne == <<45, 49>>
S_minIntMag == <<57, 50, 50, 51, 51, 55, 50, 48, 51, 54, 56, 53, 52, 55, 55, 53, 56, 48, 56>>

\* the table of configChanges flags
configChanges ==
    (S_mcc :> 1) @@ (S_mnc :> 2) @@ (S_locale :> 4) @@ (S_touchscreen :> 8) @@
    (S_keyboard :> 16) @@ (S_keyboardHidden :> 32) @@ (S_navigation :> 64) @@
    (S_orientation :> 128) @@ (S_screenLayout :> 256) @@ (S_uiMode :> 512) @@
    (S_screenSize :> 1024) @@ (S_smallestScreenSize :> 2048) @@
    (S_layoutDirection :> 8192) @@ (S_fontScale :> 1073741824)

\* a variant of MapLookup in which a missing key gives 1
MapLookupOne(m, k) == IF k \in DOMAIN m THEN m[k] ELSE 1

\* m[k] of a Go map: the zero value when k is not a key
MapLookup(m, k) == IF k \in DOMAIN m THEN m[k] ELSE 0

\* a | b on non-negative integers
RECURSIVE BitOr(_, _)
BitOr(a, b) ==
    IF a = 0 THEN b
    ELSE IF b = 0 THEN a
    ELSE 2 * BitOr(a \div 2, b \div 2) + (IF a % 2 = 1 \/ b % 2 = 1 THEN 1 ELSE 0)

\* strings.Split(str, "|"): the pieces between the | of str; cut(k) is the
\* position of the k-th | (0 before the string, Len(str) + 1 after it)
Split(str) ==
    LET bars == {i \in DOMAIN str : str[i] = 124}
        cut(k) == IF k = 0 THEN 0
                  ELSE IF k > Cardinality(bars) THEN Len(str) + 1
                  ELSE CHOOSE i \in bars :
                           Cardinality({j \in bars : j < i}) = k - 1
    IN  [k \in 1..(Cardinality(bars) + 1) |->
            SubSeq(str, cut(k - 1) + 1, cut(k) - 1)]

\* the loop of getAttr over the pieces of a configChanges value
RECURSIVE OrFlags(_, _)
OrFlags(v, pieces) ==
    IF pieces = << >> THEN v
    ELSE OrFlags(BitOr(v, MapLookup(configChanges, Head(pieces))), Tail(pieces))

\* strconv.ParseBool: the values accepted as true and as false
ParseBoolTrue == {S_one, S_t, S_T, S_TRUE, S_true, S_True}
ParseBoolFalse == {S_zero, S_f, S_F, S_FALSE, S_false, S_False}

\* strconv.ParseBool(str): err, and the value v when there is no error
ParseBool(str) ==
    IF str \in ParseBoolTrue THEN [err |-> FALSE, v |-> TRUE]
    ELSE IF str \in ParseBoolFalse THEN [err |-> FALSE, v |-> FALSE]
    ELSE [err |-> TRUE, v |-> FALSE]

IsDigit(c) == c >= 48 /\ c <= 57

\* the digits without their leading zeros (the last digit is kept)
RECURSIVE StripZeros(_)
StripZeros(ds) ==
    IF Len(ds) > 1 /\ Head(ds) = 48 THEN StripZeros(Tail(ds)) ELSE ds

\* strconv.Atoi(str): err, and when there is no error the value as a sign
\* and the decimal digits of the magnitude (an int has 64 bits)
Atoi(str) ==
    LET signed == str # << >> /\ Head(str) \in {43, 45}
        neg    == str # << >> /\ Head(str) = 45
        ds     == IF signed THEN Tail(str) ELSE str
        mag    == StripZeros(ds)
        limit  == IF neg THEN S_minIntMag ELSE S_maxInt
        bad    == [err |-> TRUE, neg |-> FALSE, digits |-> <<48>>]
    IN  IF ds = << >> \/ \E i \in DOMAIN ds : ~IsDigit(ds[i]) THEN bad
        ELSE IF Len(mag) > 19 \/ (Len(mag) = 19 /\ BytesLess(limit, mag)) THEN bad
        ELSE [err |-> FALSE, neg |-> neg /\ mag # <<48>>, digits |-> mag]

\* the code points that strings.TrimSpace removes
IsSpace(c) == c \in {9, 10, 11, 12, 13, 32, 133, 160}

RECURSIVE TrimLeft(_)
TrimLeft(str) ==
    IF str # << >> /\ IsSpace(Head(str)) THEN TrimLeft(Tail(str)) ELSE str

RECURSIVE TrimRight(_)
TrimRight(str) ==
    IF str # << >> /\ IsSpace(str[Len(str)])
    THEN TrimRight(SubSeq(str, 1, Len(str) - 1)) ELSE str

\* strings.TrimSpace
TrimSpace(str) == TrimRight(TrimLeft(str))

\* the zero binAttr
ZeroAttr == [ns |-> 0, name |-> 0, data |-> [t |-> "nil"]]

\* a variant of getAttr that makes a string reference of every value
GetAttrString(p, attr) ==
    Let(get(p, attr.space), LAMBDA g1 :
    Let(get(g1.p, attr.local), LAMBDA g2 :
    Let(get(g2.p, attr.value), LAMBDA g3 :
        [p |-> g3.p, err |-> FALSE,
         panic |-> g1.panic \/ g2.panic \/ g3.panic,
         a |-> [ns |-> g1.res, name |-> g2.res,
                data |-> [t |-> "*bstring", v |-> g3.res]]])))

\* binStringPool.getAttr(attr): the pool after the call (p), the binAttr (a),
\* whether an error is returned (err) and whether a get panicked (panic).
\* The data of a binAttr is tagged by its dynamic type: *bstring, int, bool
\* or uint32.
getAttr(p, attr) ==
    Let(get(p, attr.space), LAMBDA g1 :
    Let(get(g1.p, attr.local), LAMBDA g2 :
        LET a == [ns |-> g1.res, name |-> g2.res, data |-> [t |-> "nil"]]
            str == Let(get(g2.p, attr.value), LAMBDA g3 :
                       [p |-> g3.p, err |-> FALSE, panic |-> g3.panic,
                        a |-> [a EXCEPT !.data = [t |-> "*bstring", v |-> g3.res]]])
            fail == [p |-> g2.p, a |-> ZeroAttr, err |-> TRUE,
                     panic |-> g1.panic \/ g2.panic]
        IN  IF g1.panic \/ g2.panic THEN fail
            ELSE IF attr.space # S_androidNS THEN str
            ELSE IF attr.local \in {S_versionCode, S_minSdkVersion} THEN
                Let(Atoi(attr.value), LAMBDA v :
                    IF v.err THEN fail
                    ELSE [p |-> g2.p, err |-> FALSE, panic |-> FALSE,
                          a |-> [a EXCEPT !.data =
                                 [t |-> "int", neg |-> v.neg, digits |-> v.digits]]])
            ELSE IF attr.local \in {S_hasCode, S_debuggable} THEN
                Let(ParseBool(attr.value), LAMBDA v :
                    IF v.err THEN fail
                    ELSE [p |-> g2.p, err |-> FALSE, panic |-> FALSE,
                          a |-> [a EXCEPT !.data = [t |-> "bool", v |-> v.v]]])
            ELSE IF attr.local = S_configChanges THEN
                [p |-> g2.p, err |-> FALSE, panic |-> FALSE,
                 a |-> [a EXCEPT !.data =
                        [t |-> "uint32", v |-> OrFlags(0, Split(attr.value))]]]
            ELSE str))

\* the decimal digits (code points 48..57) of the quotient of the number of
\* the digits ds by 256, after the carry r, and the remainder
RECURSIVE DivMod256(_, _)
DivMod256(ds, r) ==
    IF ds = << >> THEN [q |-> << >>, r |-> r]
    ELSE LET cur  == 10 * r + (Head(ds) - 48)
             rest == DivMod256(Tail(ds), cur % 256)
         IN  [q |-> <<48 + (cur \div 256)>> \o rest.q, r |-> rest.r]

\* the n low bytes of the number of the decimal digits ds, lowest first
RECURSIVE LowBytes(_, _)
LowBytes(ds, n) ==
    IF n = 0 THEN << >>
    ELSE Let(DivMod256(ds, 0), LAMBDA d : <<d.r>> \o LowBytes(d.q, n - 1))

\* the bytes of the negation, modulo 2^(8 * Len(bs)), of the number of the
\* bytes bs (lowest first): every byte inverted, then one added with carry c
RECURSIVE Negate(_, _)
Negate(bs, c) ==
    IF bs = << >> THEN << >>
    ELSE <<(255 - Head(bs) + c) % 256>>
             \o Negate(Tail(bs), (255 - Head(bs) + c) \div 256)

\* appendU32(b, uint32(v)) for the int v of the sign neg and the digits ds:
\* the conversion keeps the low 32 bits of the two's complement of v
appendU32OfInt(b, neg, ds) ==
    Let(LowBytes(ds, 4), LAMBDA bs : b \o (IF neg THEN Negate(bs, 1) ELSE bs))

\* binAttr.append(b) with the pool p that holds the bstrings: the bytes (at
\* a panic, the bytes appended before it) and whether the call panicked
binAttrAppend(b, a, p) ==
    LET b1 == appendU32(b, p.heap[a.ns].ind)
        b2 == appendU32(b1, p.heap[a.name].ind)
        b3 == appendU32(b2, -1)
        b4 == appendU16(b3, 8)
        b5 == appendU16(b4, 0)
    IN  CASE a.data.t = "int" ->
                 [b |-> appendU32OfInt(b5 \o <<16>>, a.data.neg, a.data.digits),
                  panic |-> FALSE]
          [] a.data.t = "bool" ->
                 [b |-> appendU32(b5 \o <<18>>, IF a.data.v THEN 1 ELSE 0),
                  panic |-> FALSE]
          [] a.data.t = "uint32" ->
                 [b |-> appendU32(b5 \o <<16>>, a.data.v), panic |-> FALSE]
          [] OTHER -> [b |-> b5, panic |-> TRUE]

\* binStartElement.size for an element of n attributes
startElementSize(n) == 8 + 4 + 4 + 4 + 4 + n * (4 + 4 + 4 + 4 + 4)

\* -------------------------------------------------------------- lineReader
\* the lineReader before any Read
NewLineReader == [off |-> 0, lines |-> << >>]

\* the loop of Read over p[i..]: the offsets of the newlines of p
RECURSIVE NewlineOffsets(_, _, _)
NewlineOffsets(p, off, i) ==
    IF i > Len(p) THEN << >>
    ELSE (IF p[i] = 10 THEN <<off + (i - 1)>> ELSE << >>)
         \o NewlineOffsets(p, off, i + 1)

\* lineReader.Read when the underlying reader delivers the bytes p
Read(r, p) ==
    [off |-> r.off + Len(p), lines |-> r.lines \o NewlineOffsets(p, r.off, 1)]

\* sort.Search over lines[i..j) (0-based) for the predicate pos < lines[h]
RECURSIVE Search(_, _, _, _)
Search(lines, pos, i, j) ==
    IF i < j THEN
        LET h == (i + j) \div 2
        IN  IF ~(pos < lines[h + 1]) THEN Search(lines, pos, h + 1, j)
            ELSE Search(lines, pos, i, h)
    ELSE i

\* lineReader.line(pos)
line(r, pos) == Search(r.lines, pos, 0, Len(r.lines)) + 1

\* ------------------------------------------------------------------ state
VARIABLES
    apkw,       \* the *Writer that NewWriter returned
    archive,    \* what has been written to the io.Writer given to NewWriter
    calls,      \* the calls made on the Writer and its sinks, with results
    pool,       \* the binStringPool
    gets,       \* SpecPool: the get calls made, with their results
    preSort,    \* the pool as it was when sortPool was called
    pc,         \* the position of binaryXML, or of the caller of the pool
    depth,      \* binaryXML: depth
    elements,   \* binaryXML: elements
    namespaceEnds, \* binaryXML: namespaceEnds
    lr,         \* binaryXML: the lineReader, as far as the decoder's position
                \* and at most one byte beyond it
    dec,        \* the xml.Decoder
    ret,        \* what binaryXML returned: the bytes (empty for nil) and
                \* the error
    longDoc,    \* SpecLong: the input of binaryXML, a document of character
                \* data only; each text is held by its length
    longRet,    \* SpecLong: what binaryXML did on longDoc, by the lengths
                \* and the size fields of the bytes returned
    attrCalls,  \* SpecAttr: the getAttr calls made, with their results
    attrOut     \* SpecAttr: what binAttr.append did on the attributes that
                \* the first calls returned, in their order

writerVars == <<apkw, archive, calls>>
poolVars == <<pool, gets, preSort, pc>>
xmlVars == <<depth, elements, namespaceEnds, lr, dec, ret>>
longVars == <<longDoc, longRet>>
attrVars == <<attrCalls, attrOut>>
vars == <<apkw, archive, calls, pool, gets, preSort, pc,
          depth, elements, namespaceEnds, lr, dec, ret, longDoc, longRet,
          attrCalls, attrOut>>

\* ------------------------------------------------------------------ Writer
\* the nil pointer
Nil == "nil"

\* an archive to which nothing has been written: no local entries, no central
\* directory, no META-INF/MANIFEST.MF blocks and no META-INF/CERT.SF blocks
EmptyArchive ==
    [entries |-> << >>, centralDirectory |-> << >>,
     manifestMF |-> << >>, certSF |-> << >>]

\* the entry names a caller passes to Create
Names == {"AndroidManifest.xml", "lib/armeabi/libbasic.so"}

MetaInfNames ==
    {"META-INF/MANIFEST.MF", "META-INF/CERT.SF", "META-INF/CERT.RSA"}

\* a goroutine that panicked makes no further call
Panicked == calls # << >> /\ calls[Len(calls)].err = "panic"

\* the nil error
NoError == [kind |-> "nil", line |-> 0, local |-> << >>]

\* the xml.Decoder before any Token: offset is d.InputOffset(), stack the
\* elements that are open (selfClosed when the start tag was <x/>), ntok the
\* number of tokens delivered, owed whether the byte at offset is a newline
\* that the lineReader has already been made to read
NewDecoder == [offset |-> 0, stack |-> << >>, ntok |-> 0, owed |-> FALSE]

\* binaryXML has not returned
NoReturn ==
    [state |-> "none", len |-> 0, fileSize |-> 0, poolSize |-> 0,
     lengths |-> << >>, units |-> << >>]

\* NewWriter has returned nil, having written nothing; the pool is the one
\* that new(binStringPool) returns
Init ==
    /\ apkw = Nil
    /\ archive = EmptyArchive
    /\ calls = << >>
    /\ pool = EmptyPool
    /\ gets = << >>
    /\ preSort = EmptyPool
    /\ pc = "scan"
    /\ depth = 0
    /\ elements = << >>
    /\ namespaceEnds = << >>
    /\ lr = NewLineReader
    /\ dec = NewDecoder
    /\ ret = [b |-> << >>, err |-> NoError]
    /\ longDoc = << >>
    /\ longRet = NoReturn
    /\ attrCalls = << >>
    /\ attrOut = << >>

\* Writer.Create(name): returns (nil, nil); the receiver is not dereferenced
\* and nothing is written
Create(name) ==
    /\ ~Panicked
    /\ Len(calls) < MaxCalls
    /\ calls' = Append(calls, [op |-> "Create", name |-> name, sink |-> Nil,
                               from |-> 0, wrote |-> 0, err |-> "nil"])
    /\ UNCHANGED <<apkw, archive>>

\* a Write on the sink that the k-th call, a Create, returned: the sink is
\* the nil io.Writer, so the call is a nil dereference and panics
SinkWrite(k) ==
    /\ ~Panicked
    /\ Len(calls) < MaxCalls
    /\ k \in DOMAIN calls
    /\ calls[k].op = "Create"
    /\ calls[k].sink = Nil
    /\ calls' = Append(calls, [op |-> "Write", name |-> calls[k].name,
                               sink |-> Nil, from |-> k, wrote |-> 0,
                               err |-> "panic"])
    /\ UNCHANGED <<apkw, archive>>

\* Writer.Close(): returns nil; nothing is written
Close ==
    /\ ~Panicked
    /\ Len(calls) < MaxCalls
    /\ calls' = Append(calls, [op |-> "Close", name |-> "", sink |-> Nil,
                               from |-> 0, wrote |-> 0, err |-> "nil"])
    /\ UNCHANGED <<apkw, archive>>

NextWriter ==
    \/ \E name \in Names : Create(name) /\ UNCHANGED <<poolVars, xmlVars, longVars, attrVars>>
    \/ \E k \in 1..MaxCalls : SinkWrite(k) /\ UNCHANGED <<poolVars, xmlVars, longVars, attrVars>>
    \/ Close /\ UNCHANGED <<poolVars, xmlVars, longVars, attrVars>>

SpecWriter == Init /\ [][NextWriter]_vars

\* ---------------------------------------------------------------- SpecPool
\* the strings a caller interns
PoolStrings ==
    {S_empty, S_a, S_b, S_B, S_label, S_eacute, S_sekai, S_emoji,
     S_balloonSekai}

\* one call of pool.get(str)
PoolGet(str) ==
    /\ pc = "scan"
    /\ Len(gets) < MaxGets
    /\ \E r \in {get(pool, str)} :
           /\ pool' = r.p
           /\ gets' = Append(gets, [str |-> str, res |-> r.res,
                                    same |-> (r.p = pool)])
    /\ UNCHANGED <<preSort, pc>>

\* one call of sortPool(pool)
PoolSort ==
    /\ pc = "scan"
    /\ preSort' = pool
    /\ pool' = sortPool(pool)
    /\ pc' = "sorted"
    /\ UNCHANGED gets

NextPool ==
    \/ \E str \in PoolStrings : PoolGet(str) /\ UNCHANGED <<writerVars, xmlVars, longVars, attrVars>>
    \/ PoolSort /\ UNCHANGED <<writerVars, xmlVars, longVars, attrVars>>

SpecPool == Init /\ [][NextPool]_vars

\* --------------------------------------------------------------- binaryXML
\* an xml.Attr
Attr(space, local, value) == [space |-> space, local |-> local, value |-> value]

\* The start tags that the input may hold, as the decoder delivers them
\* (prefixes translated to name space URLs): the name, the attributes, the
\* raw bytes of the tag (a byte is a newline, 10, or another byte, 120) and
\* whether the tag is of the form <x/>.
StartTags == {
    \* <manifest xmlns:android="..." package="x" android:versionCode="1">,
    \* written on two lines
    [space |-> S_empty, local |-> S_manifest, selfClosed |-> FALSE,
     raw |-> <<120, 10, 120>>,
     attr |-> <<Attr(S_xmlns, S_android, S_androidNS),
                Attr(S_empty, S_package, S_x),
                Attr(S_androidNS, S_versionCode, S_one)>>],
    \* <a>
    [space |-> S_empty, local |-> S_a, selfClosed |-> FALSE, raw |-> <<120>>,
     attr |-> << >>],
    \* <b android:hasCode="1" android:configChanges="orientation|nonsense"/>
    [space |-> S_empty, local |-> S_b, selfClosed |-> TRUE, raw |-> <<120>>,
     attr |-> <<Attr(S_androidNS, S_hasCode, S_one),
                Attr(S_androidNS, S_configChanges, S_orientNonsense)>>],
    \* <a xmlns:android="..." xmlns:tools="urn:t">
    [space |-> S_empty, local |-> S_a, selfClosed |-> FALSE, raw |-> <<120>>,
     attr |-> <<Attr(S_xmlns, S_android, S_androidNS),
                Attr(S_xmlns, S_tools, S_toolsNS)>>],
    \* <b xmlns:tools="urn:t">
    [space |-> S_empty, local |-> S_b, selfClosed |-> FALSE, raw |-> <<120>>,
     attr |-> <<Attr(S_xmlns, S_tools, S_toolsNS)>>],
    \* <tools:b android:label="U+4E16 U+754C" android:debuggable="false"
    \*          versionCode="x"
    \*          android:configChanges="orientation|keyboardHidden"/>
    [space |-> S_toolsNS, local |-> S_b, selfClosed |-> TRUE, raw |-> <<120>>,
     attr |-> <<Attr(S_androidNS, S_label, S_sekai),
                Attr(S_androidNS, S_debuggable, S_false),
                Attr(S_empty, S_versionCode, S_x),
                Attr(S_androidNS, S_configChanges, S_orientKbd)>>],
    \* <b android:name="a" android:versionCode="x">
    [space |-> S_empty, local |-> S_b, selfClosed |-> FALSE, raw |-> <<120>>,
     attr |-> <<Attr(S_androidNS, S_name, S_a),
                Attr(S_androidNS, S_versionCode, S_x)>>],
    \* <b android:minSdkVersion="4294967297" android:debuggable="x">
    [space |-> S_empty, local |-> S_b, selfClosed |-> FALSE, raw |-> <<120>>,
     attr |-> <<Attr(S_androidNS, S_minSdkVersion, S_big),
                Attr(S_androidNS, S_debuggable, S_x)>>] }

\* the character data that the input may hold, with its raw bytes
CharDatas == {
    [data |-> <<10>>, raw |-> <<10>>],
    [data |-> <<10, 9>> \o S_here \o <<10, 9>>, raw |-> <<10, 120, 10>>],
    [data |-> S_a, raw |-> <<120>>] }

\* the decoder delivers a token of the raw bytes raw; ahead tells whether
\* the reads made for it took in one byte more, a newline that begins the
\* next token
Deliver(d, raw, ahead, stack) ==
    [offset |-> d.offset + Len(raw), stack |-> stack, ntok |-> d.ntok + 1,
     owed |-> ahead]

\* the lineReader after the reads that the decoder makes for that token
ReadFor(r, d, raw, ahead) ==
    Read(r, (IF d.owed THEN Tail(raw) ELSE raw)
            \o (IF ahead THEN <<10>> ELSE << >>))

\* the decoder can deliver a token of the raw bytes raw
CanDeliver(d, raw) ==
    /\ d.ntok < MaxTokens
    /\ d.owed => (raw # << >> /\ Head(raw) = 10)

\* the start tag at the top of the decoder's stack was <x/>: the decoder
\* delivers its EndElement next
MustEnd(d) == d.stack # << >> /\ d.stack[Len(d.stack)].selfClosed

\* the error that the StartElement case makes of an error of getAttr:
\* fmt.Errorf("%d: %s: %v", line, a.Name.Local, err)
AttrError(ln, local) == [kind |-> "attr", line |-> ln, local |-> local]

\* an error that d.Token() returned
TokenError == [kind |-> "token", line |-> 0, local |-> << >>]

\* the state that the loop body of binaryXML works on
ScanState ==
    [pool |-> pool, elements |-> elements, namespaceEnds |-> namespaceEnds,
     attr |-> << >>, err |-> NoError, panic |-> FALSE]

\* the loop of the StartElement case over tok.Attr, from the attributes as
\* still to be visited; it stops at the first error or panic
RECURSIVE ScanAttrs(_, _, _, _)
ScanAttrs(st, as, ln, dp) ==
    IF as = << >> THEN st
    ELSE
        LET a == Head(as)
        IN  IF a.space = S_xmlns THEN
                Let(get(st.pool, a.local), LAMBDA g1 :
                Let(get(g1.p, a.value), LAMBDA g2 :
                Let(get(g2.p, a.local), LAMBDA g3 :
                Let(get(g3.p, a.value), LAMBDA g4 :
                Let([st EXCEPT
                        !.pool = g4.p,
                        !.elements = Append(st.elements,
                            [kind |-> "StartNamespace", line |-> ln,
                             prefix |-> g1.res, url |-> g2.res]),
                        !.namespaceEnds =
                            (dp :> [kind |-> "EndNamespace", line |-> ln,
                                    prefix |-> g3.res, url |-> g4.res])
                            @@ st.namespaceEnds], LAMBDA st1 :
                    IF g1.panic \/ g2.panic \/ g3.panic \/ g4.panic
                    THEN [st1 EXCEPT !.panic = TRUE]
                    ELSE ScanAttrs(st1, Tail(as), ln, dp))))))
            ELSE
                Let(getAttr(st.pool, a), LAMBDA r :
                    IF r.panic THEN [st EXCEPT !.pool = r.p, !.panic = TRUE]
                    ELSE IF r.err THEN
                        [st EXCEPT !.pool = r.p, !.err = AttrError(ln, a.local)]
                    ELSE Let([st EXCEPT !.pool = r.p,
                                        !.attr = Append(st.attr, r.a)],
                             LAMBDA st1 : ScanAttrs(st1, Tail(as), ln, dp)))

\* one iteration of the loop of binaryXML in which d.Token() delivers the
\* StartElement t
TokStartElement(t, ahead) ==
    /\ pc = "scan"
    /\ ~MustEnd(dec)
    /\ CanDeliver(dec, t.raw)
    /\ \E ln \in {line(lr, dec.offset)} :
       \E sc \in {ScanAttrs(ScanState, t.attr, ln, depth)} :
       \E g1 \in {get(sc.pool, t.space)} :
       \E g2 \in {get(g1.p, t.local)} :
           /\ lr' = ReadFor(lr, dec, t.raw, ahead)
           /\ dec' = Deliver(dec, t.raw, ahead,
                  Append(dec.stack, [space |-> t.space, local |-> t.local,
                                     selfClosed |-> t.selfClosed]))
           /\ namespaceEnds' = sc.namespaceEnds
           /\ IF sc.panic THEN
                  /\ pc' = "panic"
                  /\ pool' = sc.pool
                  /\ elements' = sc.elements
                  /\ UNCHANGED <<depth, ret>>
              ELSE IF sc.err # NoError THEN
                  /\ pc' = "done"
                  /\ ret' = [b |-> << >>, err |-> sc.err]
                  /\ pool' = sc.pool
                  /\ elements' = sc.elements
                  /\ UNCHANGED depth
              ELSE
                  /\ depth' = depth + 1
                  /\ pool' = g2.p
                  /\ pc' = IF g1.panic \/ g2.panic THEN "panic" ELSE "scan"
                  /\ elements' =
                         IF g1.panic \/ g2.panic THEN sc.elements
                         ELSE Append(sc.elements,
                                  [kind |-> "StartElement", line |-> ln,
                                   ns |-> g1.res, name |-> g2.res,
                                   attr |-> sc.attr])
                  /\ UNCHANGED ret
    /\ UNCHANGED <<writerVars, longVars, attrVars, gets, preSort>>

\* one iteration of the loop in which d.Token() delivers the EndElement of
\* the innermost open element; after a start tag <x/> the decoder makes it up
\* without reading anything
TokEndElement(ahead) ==
    /\ pc = "scan"
    /\ dec.stack # << >>
    /\ \E top \in {dec.stack[Len(dec.stack)]} :
       \E ln \in {line(lr, dec.offset)} :
       \E g1 \in {get(pool, top.space)} :
       \E g2 \in {get(g1.p, top.local)} :
       LET rw  == IF top.selfClosed THEN << >> ELSE <<120>>
           els == Append(elements, [kind |-> "EndElement", line |-> ln,
                                    ns |-> g1.res, name |-> g2.res])
           d1  == depth - 1
       IN  /\ IF top.selfClosed THEN dec.ntok < MaxTokens /\ ~ahead
              ELSE CanDeliver(dec, rw)
           /\ lr' = IF top.selfClosed THEN lr ELSE ReadFor(lr, dec, rw, ahead)
           /\ dec' = Deliver(dec, rw, IF top.selfClosed THEN dec.owed ELSE ahead,
                             SubSeq(dec.stack, 1, Len(dec.stack) - 1))
           /\ pool' = g2.p
           /\ IF g1.panic \/ g2.panic THEN
                  /\ pc' = "panic"
                  /\ UNCHANGED <<depth, elements, namespaceEnds>>
              ELSE
                  /\ pc' = "scan"
                  /\ depth' = d1
                  /\ IF d1 \in DOMAIN namespaceEnds THEN
                         /\ namespaceEnds' =
                                [k \in DOMAIN namespaceEnds \ {d1} |->
                                    namespaceEnds[k]]
                         /\ elements' = Append(els, namespaceEnds[d1])
                     ELSE
                         /\ elements' = els
                         /\ UNCHANGED namespaceEnds
    /\ UNCHANGED <<writerVars, longVars, attrVars, gets, preSort, ret>>

\* the CharData case on the pool p: the text is trimmed and, unless nothing
\* is left, interned between a tab and a newline
InternText(p, data) ==
    Let(TrimSpace(data), LAMBDA str :
        IF str = << >> THEN [p |-> p, res |-> 0, panic |-> FALSE]
        ELSE get(p, <<9>> \o str \o <<10>>))

\* one iteration of the loop in which d.Token() delivers the CharData c
TokCharData(c, ahead) ==
    /\ pc = "scan"
    /\ ~MustEnd(dec)
    /\ CanDeliver(dec, c.raw)
    /\ lr' = ReadFor(lr, dec, c.raw, ahead)
    /\ dec' = Deliver(dec, c.raw, ahead, dec.stack)
    /\ \E g \in {InternText(pool, c.data)} :
           /\ pool' = g.p
           /\ pc' = IF g.panic THEN "panic" ELSE "scan"
    /\ UNCHANGED <<writerVars, longVars, attrVars, gets, preSort, depth, elements, namespaceEnds, ret>>

\* one iteration of the loop in which d.Token() delivers a Comment, a
\* ProcInst or a Directive
TokIgnored(kind, ahead) ==
    /\ pc = "scan"
    /\ ~MustEnd(dec)
    /\ CanDeliver(dec, <<120>>)
    /\ lr' = ReadFor(lr, dec, <<120>>, ahead)
    /\ dec' = Deliver(dec, <<120>>, ahead, dec.stack)
    /\ UNCHANGED <<writerVars, longVars, attrVars, poolVars, depth, elements, namespaceEnds, ret>>

\* the iteration in which d.Token() returns an error that is not io.EOF:
\* the input is malformed here, or it ends with an element still open
TokError ==
    /\ pc = "scan"
    /\ pc' = "done"
    /\ ret' = [b |-> << >>, err |-> TokenError]
    /\ UNCHANGED <<writerVars, longVars, attrVars, pool, gets, preSort, depth, elements,
                   namespaceEnds, lr, dec>>

\* the end of binaryXML on the pool p: sortPool, the header with the size
\* 8 + pool.size(), and the string pool
Serialize(p) ==
    Let(sortPool(p), LAMBDA sorted :
        [pool |-> sorted,
         b |-> poolAppend(appendHeader(<< >>, headerXML, 8 + size(sorted)),
                          sorted)])

\* the iteration in which d.Token() returns io.EOF, and the rest of
\* binaryXML: sortPool, the header and the string pool
TokEOF ==
    /\ pc = "scan"
    /\ dec.stack = << >>
    /\ ~dec.owed
    /\ \E out \in {Serialize(pool)} :
           /\ preSort' = pool
           /\ pool' = out.pool
           /\ ret' = [b |-> out.b, err |-> NoError]
    /\ pc' = "done"
    /\ UNCHANGED <<writerVars, longVars, attrVars, gets, depth, elements, namespaceEnds, lr, dec>>

Next ==
    \/ \E t \in StartTags, ahead \in BOOLEAN : TokStartElement(t, ahead)
    \/ \E ahead \in BOOLEAN : TokEndElement(ahead)
    \/ \E c \in CharDatas, ahead \in BOOLEAN : TokCharData(c, ahead)
    \/ \E kind \in {"Comment", "ProcInst", "Directive"}, ahead \in BOOLEAN :
           TokIgnored(kind, ahead)
    \/ TokError
    \/ TokEOF

Spec == Init /\ [][Next]_vars

\* ------------------------------------------------ binaryXML on long text
\* a text of n letters a
LongText(n) == [i \in 1..n |-> 97]

\* The lengths of the texts of a long document.  binaryXML interns a text
\* with a tab before it and a newline after it, two bytes more than the text
\* has: the strings interned have 3, 2^15 - 1, 2^15 and 2^16 bytes.
TextLengths == {1, 32765, 32766, 65534}

\* the token loop of binaryXML on a document of the texts of the lengths ns,
\* each delivered as one CharData; it stops when a get panics
RECURSIVE InternTexts(_, _)
InternTexts(p, ns) ==
    IF ns = << >> THEN [p |-> p, panic |-> FALSE]
    ELSE Let(InternText(p, LongText(Head(ns))), LAMBDA g :
             IF g.panic THEN [p |-> g.p, panic |-> TRUE]
             ELSE InternTexts(g.p, Tail(ns)))

\* what is kept of the bytes and of the sorted pool that binaryXML ends
\* with: the length of the bytes, the size fields of the file chunk header
\* and of the string pool chunk header and, for every pool string, its
\* length field and the number of UTF-16 units that follow it
Observe(out) ==
    [state |-> "returned",
     len |-> Len(out.b),
     fileSize |-> U32At(out.b, 4),
     poolSize |-> U32At(out.b, 12),
     lengths |-> [i \in DOMAIN out.pool.s |->
                     U16At(out.pool.heap[out.pool.s[i]].enc, 0)],
     units |-> [i \in DOMAIN out.pool.s |->
                   (Len(out.pool.heap[out.pool.s[i]].enc) - 4) \div 2]]

\* the input of binaryXML gets one more text, of n letters
LongAddText(n) ==
    /\ longRet.state = "none"
    /\ Len(longDoc) < MaxLongTokens
    /\ longDoc' = Append(longDoc, n)
    /\ UNCHANGED <<writerVars, poolVars, xmlVars, attrVars, longRet>>

\* binaryXML(longDoc): the token loop, then the end of binaryXML
LongEncode ==
    /\ longRet.state = "none"
    /\ \E r \in {InternTexts(EmptyPool, longDoc)} :
           longRet' = IF r.panic THEN [NoReturn EXCEPT !.state = "panic"]
                      ELSE Let(Serialize(r.p), LAMBDA out : Observe(out))
    /\ UNCHANGED <<writerVars, poolVars, xmlVars, attrVars, longDoc>>

NextLong ==
    \/ \E n \in TextLengths : LongAddText(n)
    \/ LongEncode

SpecLong == Init /\ [][NextLong]_vars

\* ---------------------------------------------------------------- SpecAttr
\* the attributes that a caller gives to getAttr
AttrInputs == {
    Attr(S_androidNS, S_versionCode, S_one),
    Attr(S_androidNS, S_versionCode, S_minusOne),
    Attr(S_androidNS, S_minSdkVersion, S_big),
    Attr(S_androidNS, S_versionCode, S_x),
    Attr(S_androidNS, S_hasCode, S_false),
    Attr(S_androidNS, S_configChanges, S_orientKbd),
    Attr(S_androidNS, S_label, S_sekai),
    Attr(S_empty, S_package, S_x) }

\* one call of pool.getAttr(attr); as binaryXML does, the caller makes no
\* further call once a call has returned an error
AttrGet(attr) ==
    /\ pc = "scan"
    /\ Len(attrCalls) < MaxAttrs
    /\ attrCalls # << >> => ~attrCalls[Len(attrCalls)].err
    /\ \E r \in {getAttr(pool, attr)} :
           /\ pool' = r.p
           /\ pc' = IF r.panic THEN "panic" ELSE "scan"
           /\ attrCalls' = Append(attrCalls,
                                  [attr |-> attr, a |-> r.a, err |-> r.err])
    /\ UNCHANGED <<gets, preSort, attrOut>>

\* one call of a.append(nil), after sortPool, on the next of the attributes
\* that getAttr returned without an error; after a panic none is made
AttrAppend ==
    /\ pc = "sorted"
    /\ Len(attrOut) < Len(attrCalls)
    /\ ~attrCalls[Len(attrOut) + 1].err
    /\ attrOut # << >> => ~attrOut[Len(attrOut)].panic
    /\ attrOut' = Append(attrOut,
           binAttrAppend(<< >>, attrCalls[Len(attrOut) + 1].a, pool))
    /\ UNCHANGED <<poolVars, attrCalls>>

NextAttr ==
    \/ \E attr \in AttrInputs :
           AttrGet(attr) /\ UNCHANGED <<writerVars, xmlVars, longVars>>
    \/ PoolSort /\ UNCHANGED <<writerVars, xmlVars, longVars, attrVars>>
    \/ AttrAppend /\ UNCHANGED <<writerVars, xmlVars, longVars>>

SpecAttr == Init /\ [][NextAttr]_vars

\* ---------------------------------------------------------- Writer claims
\* some Close call has returned without an error
CloseReturned ==
    \E i \in DOMAIN calls : calls[i].op = "Close" /\ calls[i].err = "nil"

\* the index of the first Close call that returned without an error
FirstClose ==
    CHOOSE i \in DOMAIN calls :
        /\ calls[i].op = "Close" /\ calls[i].err = "nil"
        /\ \A j \in 1..(i - 1) : ~(calls[j].op = "Close" /\ calls[j].err = "nil")

IsCreate(c) == c.op = "Create" /\ c.err = "nil"

\* the names of a sequence of calls
CallNames(cs) == [i \in DOMAIN cs |-> cs[i].name]

\* p1..pn: the names given to the Create calls made before the first Close
CreatedBeforeClose ==
    CallNames(SelectSeq(SubSeq(calls, 1, FirstClose - 1), IsCreate))

\* the names of a sequence of blocks or entries
BlockNames(bs) == [i \in DOMAIN bs |-> bs[i].name]

IsCallerName(n) == n \notin MetaInfNames

\* base64(sha1(x)), as an uninterpreted injective function
Sha1Base64(x) == <<"base64", "sha1", x>>

\* C1: once Close has returned, every caller-added entry and each of the
\* three META-INF files is an entry of the archive, and the data of every
\* entry of the archive starts at an offset that is a multiple of 4.
C1_EntriesAligned ==
    CloseReturned =>
        /\ \A n \in {CreatedBeforeClose[i] : i \in DOMAIN CreatedBeforeClose}
                    \cup MetaInfNames :
               \E k \in DOMAIN archive.entries : archive.entries[k].name = n
        /\ \A k \in DOMAIN archive.entries :
               archive.entries[k].dataOffset % 4 = 0

\* C2: once Close has returned after Create(p1)..Create(pn), the central
\* directory lists the caller entries in the order p1..pn, MANIFEST.MF lists
\* their blocks in that order and CERT.SF lists its blocks in the order of
\* MANIFEST.MF.
C2_Ordering ==
    CloseReturned =>
        /\ SelectSeq(archive.centralDirectory, IsCallerName) = CreatedBeforeClose
        /\ BlockNames(archive.manifestMF) = CreatedBeforeClose
        /\ BlockNames(archive.certSF) = BlockNames(archive.manifestMF)

\* C3: every Create call and every Close call made after a Close call has
\* returned returns an error.
C3_ClosedStaysClosed ==
    \A i, j \in DOMAIN calls :
        (i < j /\ calls[i].op = "Close" /\ calls[j].op \in {"Create", "Close"})
            => calls[j].err = "error"

\* the sink of the Write call j was invalidated by a later Create or Close
Stale(j) ==
    \E i \in (calls[j].from + 1)..(j - 1) : calls[i].op \in {"Create", "Close"}

\* C4: every Write to a sink made after the next Create or Close call
\* returns an error and adds no bytes to the archive.
C4_StaleSinkWriteFails ==
    \A j \in DOMAIN calls :
        (calls[j].op = "Write" /\ Stale(j))
            => (calls[j].err = "error" /\ calls[j].wrote = 0)

\* C6: once Close has returned, MANIFEST.MF holds exactly one block for every
\* caller-added entry and CERT.SF exactly one block for it, whose digest is
\* base64(sha1(that MANIFEST.MF block)).
C6_ManifestSFCorrespondence ==
    CloseReturned =>
        \A n \in {CreatedBeforeClose[i] : i \in DOMAIN CreatedBeforeClose} :
            /\ Cardinality({k \in DOMAIN archive.manifestMF :
                               archive.manifestMF[k].name = n}) = 1
            /\ Cardinality({k \in DOMAIN archive.certSF :
                               archive.certSF[k].name = n}) = 1
            /\ \A k \in DOMAIN archive.certSF, m \in DOMAIN archive.manifestMF :
                   (archive.certSF[k].name = n /\ archive.manifestMF[m].name = n)
                       => archive.certSF[k].digest
                              = Sha1Base64(archive.manifestMF[m])

\* ------------------------------------------------------------ pool claims
\* the string at position i of the pool p
StrAt(p, i) == p.heap[p.s[i]].str

\* the set of the strings of the pool p
PoolStringSet(p) == {StrAt(p, i) : i \in DOMAIN p.s}

\* C9: no two pool entries hold the same string, every get of the same
\* string returned the same entry, and a repeated get left the pool as it was.
C9_PoolDedup ==
    /\ \A i, j \in DOMAIN pool.s : i # j => StrAt(pool, i) # StrAt(pool, j)
    /\ \A i, j \in DOMAIN gets :
           gets[i].str = gets[j].str => gets[i].res = gets[j].res
    /\ \A j \in DOMAIN gets :
           (\E i \in 1..(j - 1) : gets[i].str = gets[j].str) => gets[j].same
    /\ \A i \in DOMAIN gets : pool.heap[gets[i].res].str = gets[i].str

\* a string was interned twice, after other strings had been interned
W_C9_RepeatedGet ==
    /\ Len(pool.s) >= 2
    /\ \E i, j \in DOMAIN gets : i + 1 < j /\ gets[i].str = gets[j].str

IndexIsPosition(p) == \A i \in DOMAIN p.s : p.heap[p.s[i]].ind = i - 1

\* C11: the ind of every pool entry is its position in p.s, after every get,
\* after any one Swap and after sortPool; after sortPool every pointer that a
\* get returned still denotes the string that was interned, and its ind is
\* the position at which append emits that string.
C11_IndexIsPosition ==
    /\ IndexIsPosition(pool)
    /\ \A i, j \in DOMAIN pool.s : IndexIsPosition(Swap(pool, i, j))
    /\ pc = "sorted" =>
           \A k \in DOMAIN gets :
               /\ pool.heap[gets[k].res].str = gets[k].str
               /\ pool.heap[gets[k].res].str = preSort.heap[gets[k].res].str
               /\ pool.s[pool.heap[gets[k].res].ind + 1] = gets[k].res

\* sortPool moved an entry to which a get had returned a pointer
W_C11_EntryMoved ==
    /\ pc = "sorted"
    /\ \E k \in DOMAIN gets :
           pool.heap[gets[k].res].ind # preSort.heap[gets[k].res].ind

\* the pool entries that have been encoded
Encoded(p) == {k \in DOMAIN p.heap : p.heap[k].enc # << >>}

\* C12: the 16-bit length field of every encoded pool entry is the number of
\* UTF-16 code units that lie between it and the terminating 16-bit zero.
C12_LengthInUnits ==
    \A k \in Encoded(pool) :
        (pool.heap[k].enc[1] + 256 * pool.heap[k].enc[2])
            = (Len(pool.heap[k].enc) - 4) \div 2

\* C13: binaryXML never panics, and when it returns bytes every pool entry
\* has fewer than 2^15 UTF-16 code units and a length field with a clear top
\* bit: a document with a longer string is answered by an error.
C13_StringTooLong ==
    /\ longRet.state # "panic"
    /\ longRet.state = "returned" =>
           \A i \in DOMAIN longRet.units :
               /\ longRet.units[i] < 32768
               /\ longRet.lengths[i] < 32768

\* -------------------------------------------------------- binaryXML claims
\* the types of the chunks that lie in b from the 0-based offset off on,
\* each found at the end of the one before it
RECURSIVE ChunkTypes(_, _)
ChunkTypes(b, off) ==
    IF off + 8 > Len(b) \/ U32At(b, off + 4) < 8 THEN << >>
    ELSE <<U16At(b, off)>> \o ChunkTypes(b, off + U32At(b, off + 4))

\* the chunk type that serializes an element of the chunk list
ChunkTypeOf(e) ==
    CASE e.kind = "StartNamespace" -> headerStartNamespace
      [] e.kind = "EndNamespace" -> headerEndNamespace
      [] e.kind = "StartElement" -> headerStartElement
      [] e.kind = "EndElement" -> headerEndElement

IsNodeType(t) == t \notin {headerStringPool, headerResourceMap}

\* binaryXML has returned bytes and a nil error
Returned == pc = "done" /\ ret.err = NoError

\* C7: the bytes returned hold, after the string pool and the resource map,
\* one chunk for every element of the chunk list, of its type, in the order
\* of the list.
C7_ChunksSerialized ==
    Returned =>
        SelectSeq(ChunkTypes(ret.b, 8), IsNodeType)
            = [i \in DOMAIN elements |-> ChunkTypeOf(elements[i])]

\* C8: the bytes returned hold, directly after the string pool, a chunk of
\* type 0x0180 with one 32-bit entry for every pool string in sorted order:
\* the resource ID of the string when it is a name of resourceCodes, else 0.
C8_ResourceMap ==
    Returned =>
        LET at == 8 + U32At(ret.b, 12)
            n  == Len(pool.s)
        IN  /\ Len(ret.b) >= at + 8 + 4 * n
            /\ U16At(ret.b, at) = headerResourceMap
            /\ U16At(ret.b, at + 2) = 8
            /\ U32At(ret.b, at + 4) = 8 + 4 * n
            /\ \A i \in 1..n :
                   U32At(ret.b, at + 8 + 4 * (i - 1))
                       = MapLookup(resourceCodes, StrAt(pool, i))

\* C14: in the bytes returned, the 32-bit little-endian size field of the
\* file chunk header is the length of the bytes, and that of the string pool
\* chunk header is the length of the string pool chunk.
C14_SizeFields ==
    longRet.state = "returned" =>
        /\ longRet.fileSize = longRet.len
        /\ longRet.poolSize = longRet.len - 8

\* the attributes of the StartElements of the chunk list
ElementAttrs ==
    UNION {{elements[i].attr[k] : k \in DOMAIN elements[i].attr} :
              i \in {j \in DOMAIN elements : elements[j].kind = "StartElement"}}

\* the dynamic type that the claim gives to the value of an attribute of
\* the name space space and the local name local
KindOf(space, local) ==
    IF space # S_androidNS THEN "*bstring"
    ELSE IF local \in {S_versionCode, S_minSdkVersion} THEN "int"
    ELSE IF local \in {S_hasCode, S_debuggable} THEN "bool"
    ELSE IF local = S_configChanges THEN "uint32"
    ELSE "*bstring"

\* C15: the value of every attribute that getAttr returned has the type
\* that goes with its name space and local name: int for Android versionCode
\* and minSdkVersion, bool for Android hasCode and debuggable, uint32 for
\* Android configChanges, a string reference for every other Android name
\* and for every attribute outside the Android name space.
C15_AttrClassified ==
    \A a \in ElementAttrs :
        a.data.t = KindOf(pool.heap[a.ns].str, pool.heap[a.name].str)

\* the chunk list holds attributes of all four types, and one named
\* versionCode outside the Android name space
W_C15_AllKinds ==
    /\ \A t \in {"int", "bool", "uint32", "*bstring"} :
           \E a \in ElementAttrs :
               a.data.t = t /\ pool.heap[a.ns].str = S_androidNS
    /\ \E a \in ElementAttrs :
           /\ pool.heap[a.ns].str # S_androidNS
           /\ pool.heap[a.name].str = S_versionCode

\* an Android hasCode or debuggable attribute whose value is neither true
\* nor false
NotStrictBool(a) ==
    /\ a.space = S_androidNS
    /\ a.local \in {S_hasCode, S_debuggable}
    /\ a.value \notin {S_true, S_false}

\* C16: when the first attribute of a start tag is an Android hasCode or
\* debuggable whose value is neither true nor false, the iteration that
\* takes the start tag makes binaryXML return an error that carries the line
\* and the local name of the attribute.
C16_StrictBool ==
    [][\A t \in StartTags : \A ahead \in BOOLEAN :
           (/\ TokStartElement(t, ahead)
            /\ t.attr # << >>
            /\ NotStrictBool(t.attr[1]))
           => (/\ pc' = "done"
               /\ ret'.err = AttrError(line(lr, dec.offset), t.attr[1].local))]_vars

\* the sum of the flag bits of the names of the set names
RECURSIVE FlagSum(_)
FlagSum(names) ==
    IF names = {} THEN 0
    ELSE LET n == CHOOSE x \in names : TRUE
         IN  configChanges[n] + FlagSum(names \ {n})

\* the flag word that the claim gives to a configChanges value: every flag
\* of the table that is one of the pieces between the | of the value, once
FlagsOf(value) ==
    FlagSum({n \in DOMAIN configChanges :
                \E k \in DOMAIN Split(value) : Split(value)[k] = n})

IsConfigChanges(a) == a.space = S_androidNS /\ a.local = S_configChanges

\* C17: when the iteration that takes a start tag appends its StartElement,
\* every Android configChanges attribute of the tag has in the element the
\* uint32 value that is the OR of the flags of its pieces, a piece that is
\* not in the table counting 0: 0x80 for orientation|nonsense and 0xa0 for
\* orientation|keyboardHidden.
C17_ConfigChanges ==
    [][\A t \in StartTags : \A i \in DOMAIN t.attr : \A ahead \in BOOLEAN :
           (/\ IsConfigChanges(t.attr[i])
            /\ pc' = "scan"
            /\ Len(elements') > Len(elements)
            /\ elements'[Len(elements')].kind = "StartElement"
            /\ pool'.heap[elements'[Len(elements')].ns].str = t.space
            /\ pool'.heap[elements'[Len(elements')].name].str = t.local
            /\ dec'.owed = ahead
            /\ TokStartElement(t, ahead))
           => LET e == elements'[Len(elements')]
                  k == Cardinality({j \in 1..i : t.attr[j].space # S_xmlns})
              IN  /\ e.attr[k].data =
                         [t |-> "uint32", v |-> FlagsOf(t.attr[i].value)]
                  /\ t.attr[i].value = S_orientNonsense => e.attr[k].data.v = 128
                  /\ t.attr[i].value = S_orientKbd => e.attr[k].data.v = 160]_vars

\* the chunk list holds a configChanges attribute of the value 0x80 and one
\* of the value 0xa0
W_C17_BothValues ==
    \A v \in {128, 160} :
        \E a \in ElementAttrs :
            /\ pool.heap[a.name].str = S_configChanges
            /\ a.data = [t |-> "uint32", v |-> v]

\* binaryXML has ended in one of the two outcomes: bytes and a nil error, or
\* no bytes and an error; an error made of a getAttr error carries a line
\* and the local name of an attribute
TwoOutcomes ==
    /\ pc # "panic"
    /\ pc = "done" =>
           \/ ret.err = NoError /\ ret.b # << >>
           \/ ret.err # NoError /\ ret.b = << >>
    /\ ret.err.kind = "attr" => ret.err.line >= 1 /\ ret.err.local # << >>

\* C18: binaryXML never panics; it returns either bytes with a nil error or
\* no bytes with an error, and the error for an attribute value that does
\* not parse carries the source line and the local name of the attribute.
C18_NoPanic ==
    /\ TwoOutcomes
    /\ longRet.state \in {"none", "returned"}

\* the positions of the chunk list that hold an element of the kind kind
ElementsOfKind(kind) == {i \in DOMAIN elements : elements[i].kind = kind}

\* C19: when binaryXML has returned bytes, the chunk list holds as many
\* EndNamespaces as StartNamespaces, every StartNamespace is followed by an
\* EndNamespace of its prefix and url, every EndNamespace comes directly
\* after an EndElement or after another EndNamespace of the same element,
\* and no EndNamespace is left in namespaceEnds.
C19_NamespacesClosed ==
    Returned =>
        /\ DOMAIN namespaceEnds = {}
        /\ Cardinality(ElementsOfKind("StartNamespace"))
               = Cardinality(ElementsOfKind("EndNamespace"))
        /\ \A i \in ElementsOfKind("StartNamespace") :
               \E j \in ElementsOfKind("EndNamespace") :
                   /\ j > i
                   /\ elements[j].prefix = elements[i].prefix
                   /\ elements[j].url = elements[i].url
        /\ \A j \in ElementsOfKind("EndNamespace") :
               j > 1 /\ elements[j - 1].kind \in {"EndElement", "EndNamespace"}

\* C20: in the bytes returned, the string pool chunk, which follows the 8
\* bytes of the file chunk header and ends the bytes, has a length that is
\* a multiple of 4, as has the size that binStringPool.size gives it.
C20_PoolAligned ==
    Returned =>
        /\ (Len(ret.b) - 8) % 4 = 0
        /\ size(pool) % 4 = 0

\* ------------------------------------------------------ attribute claims
\* the bytes that appendU32 writes for the index of the pool entry e
IndexBytes(e) == appendU32(<< >>, pool.heap[e].ind)

\* the calls of binAttr.append made so far
Appended == DOMAIN attrOut

\* C21: binAttr.append serializes an attribute whose value is a string
\* reference without a panic, with the type tag 0x03, with the 4 bytes of
\* data equal to the pool index of the string and with the raw value field
\* equal to that same index.
C21_StringAttr ==
    \A k \in Appended :
        attrCalls[k].a.data.t = "*bstring" =>
            /\ ~attrOut[k].panic
            /\ Len(attrOut[k].b) = 20
            /\ attrOut[k].b[16] = 3
            /\ SubSeq(attrOut[k].b, 17, 20) = IndexBytes(attrCalls[k].a.data.v)
            /\ SubSeq(attrOut[k].b, 9, 12) = IndexBytes(attrCalls[k].a.data.v)

\* C22: binAttr.append emits exactly 20 bytes for an attribute: the name
\* space index, the name index and the raw value of 4 bytes each, the size of
\* 2 bytes that is 8, one reserved zero byte, one byte of type tag and 4 bytes
\* of value; 20 is the length that binStartElement.size counts for an
\* attribute.
C22_TwentyBytes ==
    \A k \in Appended :
        ~attrOut[k].panic =>
            /\ Len(attrOut[k].b) = 20
            /\ Len(attrOut[k].b) = startElementSize(1) - startElementSize(0)
            /\ SubSeq(attrOut[k].b, 1, 4) = IndexBytes(attrCalls[k].a.ns)
            /\ SubSeq(attrOut[k].b, 5, 8) = IndexBytes(attrCalls[k].a.name)
            /\ SubSeq(attrOut[k].b, 13, 14) = <<8, 0>>
            /\ attrOut[k].b[15] = 0
            /\ attrOut[k].b[16] \in {3, 16, 18}

\* C23: the name space field of an attribute whose XML name space is empty,
\* the first 4 bytes that binAttr.append writes, is 0xFFFFFFFF and not the
\* pool index of the empty string.
C23_EmptyNamespace ==
    \A k \in Appended :
        attrCalls[k].attr.space = S_empty =>
            /\ Len(attrOut[k].b) >= 4
            /\ SubSeq(attrOut[k].b, 1, 4) = <<255, 255, 255, 255>>

\* the newlines of the input at offsets strictly less than pos; the
\* lineReader has read every byte before the decoder's position
NewlinesBefore(pos) == {i \in DOMAIN lr.lines : lr.lines[i] < pos}

\* C24: at the decoder's position pos, lineReader.line(pos) is the number of
\* newline bytes at offsets strictly less than pos, plus one: a newline at
\* pos itself is not counted.
C24_LineCountsBefore ==
    line(lr, dec.offset) = Cardinality(NewlinesBefore(dec.offset)) + 1

\* the lineReader as it is when the newline that the decoder has read
\* beyond its position has not been read
WithoutReadAhead ==
    IF dec.owed
    THEN [off |-> lr.off - 1, lines |-> SubSeq(lr.lines, 1, Len(lr.lines) - 1)]
    ELSE lr

\* C25: the line computed for the decoder's position is the same whether or
\* not the byte at that position has already been read into the lineReader.
C25_ReadAheadIndependent ==
    line(lr, dec.offset) = line(WithoutReadAhead, dec.offset)

\* "4294967295", the largest value of 32 bits
S_maxU32 == <<52, 50, 57, 52, 57, 54, 55, 50, 57, 53>>

\* the string is a decimal numeral without a sign
AllDigits(str) == str # << >> /\ \A i \in DOMAIN str : IsDigit(str[i])

\* the decimal numeral str is at most 4294967295
Fits32(str) ==
    \/ Len(StripZeros(str)) < Len(S_maxU32)
    \/ /\ Len(StripZeros(str)) = Len(S_maxU32)
       /\ ~BytesLess(S_maxU32, StripZeros(str))

\* C26: getAttr rejects with an error the value of an Android versionCode or
\* minSdkVersion attribute that does not fit in 32 bits, so that the 4 bytes
\* serialized with type tag 0x10 are the decimal value written in the XML.
C26_IntFits32 ==
    \A k \in DOMAIN attrCalls :
        ( /\ attrCalls[k].attr.space = S_androidNS
          /\ attrCalls[k].attr.local \in {S_versionCode, S_minSdkVersion}
          /\ AllDigits(attrCalls[k].attr.value)
          /\ ~Fits32(attrCalls[k].attr.value) )
        => attrCalls[k].err

====
